---- MODULE Spec2Model ----
(***************************************************************************)
(* Model of wordlehelper: the constraint filter `solve` (src/main.rs), the *)
(* heuristic filters (src/filter.rs) and the interactive session loop      *)
(* (main / play_game).                                                     *)
(*                                                                         *)
(* A char is a one-character string; a word, a playfield and the           *)
(* wrong-letter vector are sequences of chars; a candidate list is a       *)
(* sequence of words.                                                      *)
(***************************************************************************)
EXTENDS Integers, Sequences, FiniteSets, TLC

\* ------------------------------------------------------------------ bounds
\* Length of the words and playfields the pure functions are applied to.
WordLen == 2
\* Longest candidate list handed to a pure function.
MaxWords == 2

\* ------------------------------------------------------------------- chars
LowerChars == <<"a","b","c","d","e","f","g","h","i","j","k","l","m",
                "n","o","p","q","r","s","t","u","v","w","x","y","z">>
UpperChars == <<"A","B","C","D","E","F","G","H","I","J","K","L","M",
                "N","O","P","Q","R","S","T","U","V","W","X","Y","Z">>

CharIndex(table, c) == CHOOSE i \in DOMAIN table : table[i] = c

\* char::is_uppercase / char::is_lowercase
is_uppercase(c) == \E i \in DOMAIN UpperChars : UpperChars[i] = c
is_lowercase(c) == \E i \in DOMAIN LowerChars : LowerChars[i] = c

\* char::to_lowercase / char::to_uppercase / char::to_ascii_uppercase:
\* a cased letter maps to its counterpart, every other char to itself.
to_lowercase(c) == IF is_uppercase(c) THEN LowerChars[CharIndex(UpperChars, c)] ELSE c
to_uppercase(c) == IF is_lowercase(c) THEN UpperChars[CharIndex(LowerChars, c)] ELSE c
to_ascii_uppercase(c) == to_uppercase(c)

\* str::contains(char) and slice::contains / iter().any(|&c| c == x)
contains(s, c) == \E i \in 1..Len(s) : s[i] = c

\* ------------------------------------------------------------------- solve
\* The inner loop body of solve for (index, letter), one operator per
\* `continue 'nextword`. WrongLetterExempt is the part of the third condition
\* that spares a letter of wrong_letters.

\* Faulty variant: the test of line 224 left out, a wrong letter is spared at
\* the slot Locked to it and nowhere else.
WrongLetterExemptMutant(game, letter, index) ==
    to_uppercase(letter) = game.playfield[index]

WrongLetterExempt(game, letter, index) ==
    \/ to_uppercase(letter) = game.playfield[index]
    \/ contains(game.playfield, letter)

\* Faulty variant: `|| letter == game.playfield[index]` left out.
MisplacedRejectMutant(game, word, index) ==
    is_lowercase(game.playfield[index]) /\ ~contains(word, game.playfield[index])

MisplacedReject(game, word, index) ==
    \/ is_lowercase(game.playfield[index]) /\ ~contains(word, game.playfield[index])
    \/ word[index] = game.playfield[index]

LockedReject(game, word, index) ==
    /\ is_uppercase(game.playfield[index])
    /\ word[index] # to_lowercase(game.playfield[index])

WrongReject(game, word, index) ==
    /\ contains(game.wrong_letters, word[index])
    /\ ~WrongLetterExempt(game, word[index], index)

SlotRejects(game, word, index) ==
    \/ LockedReject(game, word, index)
    \/ MisplacedReject(game, word, index)
    \/ WrongReject(game, word, index)

\* The 'nextword loop of solve: words are visited in order, a word none of
\* whose slots rejects is pushed to the back of new_possible_words.
RECURSIVE solve_loop(_, _, _, _)
solve_loop(game, possible_words, k, new_possible_words) ==
    IF k > Len(possible_words) THEN new_possible_words
    ELSE LET word == possible_words[k]
         IN  IF \E index \in 1..Len(word) : SlotRejects(game, word, index)
             THEN solve_loop(game, possible_words, k + 1, new_possible_words)
             ELSE solve_loop(game, possible_words, k + 1, Append(new_possible_words, word))

\* Faulty variant: the last survivor ends up in front.
solveMutant(game, possible_words) ==
    LET out == solve_loop(game, possible_words, 1, <<>>)
    IN  IF Len(out) > 1 THEN <<out[Len(out)]>> \o SubSeq(out, 1, Len(out) - 1) ELSE out

\* Faulty variant: the loop starts at the second word.
solveFromSecond(game, possible_words) == solve_loop(game, possible_words, 2, <<>>)

solve(game, possible_words) == solve_loop(game, possible_words, 1, <<>>)

\* ----------------------------------------------------------------- filters
\* Faulty variant: the set is not cleared.
clearMutant(wordhash) == wordhash

\* HashSet::clear
clear(wordhash) == {}

\* The inner loop of words_without_duplicate_letters: inserts the letters of
\* word into wordhash one by one and stops at the first insert that returns
\* false. Yields the set as it then is and whether that happened.
RECURSIVE insert_letters(_, _, _)
insert_letters(word, k, wordhash) ==
    IF k > Len(word) THEN [wordhash |-> wordhash, repeated |-> FALSE]
    ELSE IF word[k] \in wordhash THEN [wordhash |-> wordhash, repeated |-> TRUE]
    ELSE insert_letters(word, k + 1, wordhash \cup {word[k]})

\* The 'word loop: one HashSet serves every word and is cleared per word.
RECURSIVE duplicate_loop(_, _, _, _)
duplicate_loop(possible_words, k, wordhash, kept) ==
    IF k > Len(possible_words) THEN kept
    ELSE LET r == insert_letters(possible_words[k], 1, clear(wordhash))
         IN  duplicate_loop(possible_words, k + 1, r.wordhash,
                            IF r.repeated THEN kept ELSE Append(kept, possible_words[k]))

words_without_duplicate_letters(possible_words) ==
    duplicate_loop(possible_words, 1, {}, <<>>)

common_letters(language) ==
    IF language = "Swedish"
    THEN <<"e", "a", "n", "r", "t", "s", "i", "l", "d">>
    ELSE <<"e", "t", "a", "o", "i", "n", "s", "h", "l">>

\* filtered_common_letters.retain(|&f| !game.playfield.contains(&f.to_ascii_uppercase()))
filtered_common_letters(game) ==
    SelectSeq(common_letters(game.language),
              LAMBDA f : ~contains(game.playfield, to_ascii_uppercase(f)))

\* hits: the letters of the filtered list that the word contains
hits(filtered, word) == SelectSeq(filtered, LAMBDA c : contains(word, c))

\* map.entry(n).or_insert(Vec::new()).push(word); the HashMap is a function
\* whose domain is the set of keys inserted so far.
entry_push(map, n, word) ==
    IF n \in DOMAIN map THEN [map EXCEPT ![n] = Append(@, word)]
    ELSE [m \in DOMAIN map \cup {n} |-> IF m = n THEN <<word>> ELSE map[m]]

RECURSIVE common_loop(_, _, _, _)
common_loop(possible_words, k, filtered, map) ==
    IF k > Len(possible_words) THEN map
    ELSE LET word == possible_words[k]
             n == Len(hits(filtered, word))
         IN  common_loop(possible_words, k + 1, filtered,
                         IF n # 0 THEN entry_push(map, n, word) ELSE map)

\* Faulty variant: min_by_key.
max_by_keyMutant(map) == CHOOSE key \in DOMAIN map : \A other \in DOMAIN map : key <= other

\* map.iter().max_by_key(|&(key, _)| key): keys are unique, so the maximum is
\* the same for every iteration order of the HashMap.
max_by_key(map) == CHOOSE key \in DOMAIN map : \A other \in DOMAIN map : key >= other

\* Faulty variant: no fallback to the input when the map is empty.
words_with_common_lettersMutant(possible_words, game) ==
    LET map == common_loop(possible_words, 1, filtered_common_letters(game), <<>>)
    IN  IF DOMAIN map # {} THEN map[max_by_key(map)] ELSE <<>>

words_with_common_letters(possible_words, game) ==
    LET map == common_loop(possible_words, 1, filtered_common_letters(game), <<>>)
    IN  IF DOMAIN map # {} THEN map[max_by_key(map)] ELSE possible_words

uncommon_letters(language) ==
    IF language = "Swedish"
    THEN <<"q", "z", "w", "x", "j", "y">>
    ELSE <<"z", "q", "x", "j", "v", "b">>

\* used_uncommon_letters.retain(|&f| !game.playfield.contains(&f))
used_uncommon_letters(game) ==
    SelectSeq(uncommon_letters(game.language), LAMBDA f : ~contains(game.playfield, f))

RECURSIVE uncommon_loop(_, _, _, _)
uncommon_loop(possible_words, k, used, kept) ==
    IF k > Len(possible_words) THEN kept
    ELSE LET word == possible_words[k]
         IN  uncommon_loop(possible_words, k + 1, used,
                           IF \E i \in 1..Len(used) : contains(word, used[i])
                           THEN kept ELSE Append(kept, word))

words_without_uncommon_letters(possible_words, game) ==
    uncommon_loop(possible_words, 1, used_uncommon_letters(game), <<>>)

\* ---------------------------------------------------------- prompt parsing
Five == 5
Six == 6

Err == [tag |-> "Err", value |-> <<>>]
None == [tag |-> "None", value |-> <<>>]
Some(v) == [tag |-> "Some", value |-> v]

\* What a prompt read: text, or a failed read
ReadFailed == [state |-> "err", text |-> <<>>]
ReadText(t) == [state |-> "ok", text |-> t]
NotRead == [state |-> "none", text |-> <<>>]

is_whitespace(c) == c = " " \/ c = "\n"

\* str::trim_matches(ch): ch stripped from both ends
RECURSIVE trim_start_matches(_, _)
trim_start_matches(s, ch) ==
    IF s # <<>> /\ Head(s) = ch THEN trim_start_matches(Tail(s), ch) ELSE s

RECURSIVE trim_end_matches(_, _)
trim_end_matches(s, ch) ==
    IF s # <<>> /\ s[Len(s)] = ch THEN trim_end_matches(SubSeq(s, 1, Len(s) - 1), ch) ELSE s

trim_matches(s, ch) == trim_end_matches(trim_start_matches(s, ch), ch)

\* str::trim: whitespace stripped from both ends
RECURSIVE trim_start(_)
trim_start(s) == IF s # <<>> /\ is_whitespace(Head(s)) THEN trim_start(Tail(s)) ELSE s

RECURSIVE trim_end(_)
trim_end(s) ==
    IF s # <<>> /\ is_whitespace(s[Len(s)]) THEN trim_end(SubSeq(s, 1, Len(s) - 1)) ELSE s

trim(s) == trim_end(trim_start(s))

\* str::to_lowercase and str::replace(' ', "-"), char by char
str_to_lowercase(s) == [i \in 1..Len(s) |-> to_lowercase(s[i])]
replace(s, from, to) == [i \in 1..Len(s) |-> IF s[i] = from THEN to ELSE s[i]]

\* get_playfield: the validator admits only text of game.length chars
get_playfield(read) ==
    IF read.state = "err" THEN Err
    ELSE Some(replace(trim_matches(read.text, "\n"), " ", "-"))

get_chars_not_in_word(read) ==
    IF read.state = "err" THEN Err
    ELSE LET trimmed_input == str_to_lowercase(trim(read.text))
         IN  IF trimmed_input = <<>> THEN None ELSE Some(trimmed_input)

\* get_user_input: the command it leaves and the Result it returns
get_user_input(command, read) ==
    IF read.state = "err" THEN [command |-> command, result |-> Err]
    ELSE IF trim(read.text) = <<"1">> THEN [command |-> "Exit", result |-> None]
    ELSE IF trim(read.text) = <<"2">> THEN [command |-> "NewGame", result |-> None]
    ELSE IF trim(read.text) = <<>> THEN [command |-> command, result |-> None]
    ELSE [command |-> command, result |-> Some(trim(read.text))]

\* Faulty variant: Ok(None) empties the field.
assign_if_someMutant(field, user_input) ==
    IF user_input.tag = "Some" THEN user_input.value
    ELSE IF user_input.tag = "None" THEN <<>> ELSE field

\* if let Ok(Some(input)) = user_input { field = input.chars().collect(); }
assign_if_some(field, user_input) ==
    IF user_input.tag = "Some" THEN user_input.value ELSE field

\* ------------------------------------------------------------------- state
VARIABLES
    mainpc,          \* main: "first" / "second" call of play_game of a loop
                     \* iteration, or "exited" / "failed" / "panicked"
    pc,              \* play_game: "new_game", "playfield", "wrong", "prompt",
                     \* "returned"; "idle" when no session runs
    current_game,    \* play_game's Game
    possible_words,  \* play_game's candidate list
    command,         \* play_game's command, and its return value
    shown,           \* the lists the round printed
    wrong_read,      \* what the wrong-letter prompt of the round read
    game,            \* argument of a pure function: the Game it is given
    words,           \* argument of a pure function: possible_words
    op,              \* the pure function that was applied, "none" before
    returned         \* what it returned

sessionvars == <<mainpc, pc, current_game, possible_words, command, shown, wrong_read>>

fnvars == <<game, words, op, returned>>

vars == <<mainpc, pc, current_game, possible_words, command, shown, wrong_read,
          game, words, op, returned>>

\* No Game: before Game::new_game and after play_game has returned
NoGame == [language |-> "none", length |-> 0, playfield |-> <<>>, wrong_letters |-> <<>>]
NothingShown == [all |-> <<>>, without_duplicate |-> <<>>,
                 without_uncommon |-> <<>>, with_common |-> <<>>]

NoSession ==
    /\ mainpc = "none"
    /\ pc = "idle"
    /\ current_game = NoGame
    /\ possible_words = <<>>
    /\ command = "Nothing"
    /\ shown = NothingShown
    /\ wrong_read = NotRead

NoCall ==
    /\ game = NoGame
    /\ words = <<>>
    /\ op = "none"
    /\ returned = <<>>

\* --------------------------------------------- inputs of the pure functions
\* The letters the inputs are written in. solve treats all letters alike, so
\* two stand for all. A filter's input is written in one of two alphabets:
\* "a" is a common letter of both languages, "o" of English alone, and "z" is
\* an uncommon letter of both.
SolveLetters == {"a", "e"}
FilterAlphabets == {{"a", "o"}, {"a", "z"}}

SlotMarks(letters) == {"-"} \cup letters \cup {to_uppercase(c) : c \in letters}
Playfields(letters) == [1..WordLen -> SlotMarks(letters)]
WordsOver(letters) == [1..WordLen -> letters]
CandidateLists(letters) == UNION {[1..n -> WordsOver(letters)] : n \in 0..MaxWords}
\* wrong_letters: each vector of distinct letters
WrongLetterVecs(letters) ==
    {v \in UNION {[1..n -> letters] : n \in 0..Cardinality(letters)} :
        \A i, j \in 1..Len(v) : v[i] = v[j] => i = j}

InitSolve ==
    /\ game \in [language : {"Swedish"}, length : {WordLen},
                 playfield : Playfields(SolveLetters),
                 wrong_letters : WrongLetterVecs(SolveLetters)]
    /\ words \in CandidateLists(SolveLetters)
    /\ op = "none"
    /\ returned = <<>>
    /\ NoSession

CallSolve ==
    /\ op = "none"
    /\ op' = "solve"
    /\ returned' = solve(game, words)
    /\ UNCHANGED <<game, words, sessionvars>>

\* solve applied to its own output, with the same Game
CallSolveAgain ==
    /\ op = "solve"
    /\ op' = "solve_again"
    /\ words' = returned
    /\ returned' = solve(game, returned)
    /\ UNCHANGED <<game, sessionvars>>

NextSolve == CallSolve \/ CallSolveAgain

SpecSolve == InitSolve /\ [][NextSolve]_vars

InitFilter ==
    /\ \E letters \in FilterAlphabets :
        /\ game \in [language : {"Swedish", "English"}, length : {WordLen},
                     playfield : Playfields(letters),
                     wrong_letters : {<<>>}]
        /\ words \in CandidateLists(letters)
    /\ op = "none"
    /\ returned = <<>>
    /\ NoSession

CallDuplicate ==
    /\ op = "none"
    /\ op' = "duplicate"
    /\ returned' = words_without_duplicate_letters(words)
    /\ UNCHANGED <<game, words, sessionvars>>

CallCommon ==
    /\ op = "none"
    /\ op' = "common"
    /\ returned' = words_with_common_letters(words, game)
    /\ UNCHANGED <<game, words, sessionvars>>

CallUncommon ==
    /\ op = "none"
    /\ op' = "uncommon"
    /\ returned' = words_without_uncommon_letters(words, game)
    /\ UNCHANGED <<game, words, sessionvars>>

NextFilter == CallDuplicate \/ CallCommon \/ CallUncommon

SpecFilter == InitFilter /\ [][NextFilter]_vars

\* ----------------------------------------------------------------- session
\* The word files are not part of the sources: each is stood for by three
\* words of its length, and a file may hold any prefix of them.
FileName(language, length) ==
    IF language = "English" THEN "english5.txt"
    ELSE IF length = Six THEN "svenska6.txt" ELSE "svenska5.txt"

FileWords(name) ==
    IF name = "english5.txt"
    THEN << <<"a","p","p","l","e">>, <<"m","a","n","g","o">>, <<"a","m","b","e","r">> >>
    ELSE IF name = "svenska5.txt"
    THEN << <<"s","p","a","d","e">>, <<"r","i","b","b","a">>, <<"a","k","t","i","e">> >>
    ELSE << <<"a","n","d","a","r","s">>, <<"b","a","n","a","n","a">>, <<"s","a","m","l","a","r">> >>

FileContents(name) == {SubSeq(FileWords(name), 1, n) : n \in 0..Len(FileWords(name))}

\* What the user types at the playfield prompt: a few openings, each filled
\* up with "-" to the length the validator demands.
PlayfieldOpenings ==
    { <<>>, <<"A">>, <<"a">>, <<" ", "m">>, <<"S", "-", "-", "-", "e">>, <<"-", "A", "n">> }

PlayfieldTexts(length) ==
    {o \o [i \in 1..(length - Len(o)) |-> "-"] : o \in PlayfieldOpenings}

\* What the user types at the wrong-letter prompt
WrongLetterTexts == { <<>>, <<" ">>, <<"g">>, <<"P">>, <<" ", "m", "o">>, <<"e", " ">> }

\* What the user types at the end-of-round prompt
CommandTexts == { <<>>, <<"1">>, <<"2">>, <<"3">>, <<"4">>, <<" ", "1">>, <<"x">> }

Reads(texts) == {ReadFailed} \cup {ReadText(t) : t \in texts}

InitSession ==
    /\ mainpc = "first"
    /\ pc = "new_game"
    /\ current_game = NoGame
    /\ possible_words = <<>>
    /\ command = "Nothing"
    /\ shown = NothingShown
    /\ wrong_read = NotRead
    /\ NoCall

\* Game::new_game: neither language chosen (Esc or q): std::process::exit(0)
NewGameQuit ==
    /\ pc = "new_game"
    /\ mainpc' = "exited"
    /\ pc' = "idle"
    /\ UNCHANGED <<current_game, possible_words, command, shown, wrong_read, fnvars>>

\* Game::new_game: a Select prompt fails and expect panics
NewGamePanics ==
    /\ pc = "new_game"
    /\ mainpc' = "panicked"
    /\ pc' = "idle"
    /\ UNCHANGED <<current_game, possible_words, command, shown, wrong_read, fnvars>>

\* The Games new_game can build: English is always Five
NewGames ==
    {[language |-> l, length |-> n, playfield |-> [i \in 1..n |-> "-"], wrong_letters |-> <<>>] :
        <<l, n>> \in {<<"English", Five>>, <<"Swedish", Five>>, <<"Swedish", Six>>}}

\* play_game: read_file fails and the error is passed up through main
ReadFileFails ==
    /\ pc = "new_game"
    /\ mainpc' = "failed"
    /\ pc' = "idle"
    /\ UNCHANGED <<current_game, possible_words, command, shown, wrong_read, fnvars>>

\* The head of play_game's while loop
LoopRuns(ws, cmd) == Len(ws) > 1 /\ cmd = "Nothing"

\* play_game up to the first prompt: new Game, file read, loop entered or not
StartSession ==
    /\ pc = "new_game"
    /\ \E g \in NewGames : \E file \in FileContents(FileName(g.language, g.length)) :
        IF LoopRuns(file, "Nothing")
        THEN /\ current_game' = g
             /\ possible_words' = file
             /\ pc' = "playfield"
        ELSE /\ current_game' = NoGame
             /\ possible_words' = <<>>
             /\ pc' = "returned"
    /\ command' = "Nothing"
    /\ UNCHANGED <<mainpc, shown, wrong_read, fnvars>>

\* The playfield prompt, then the first solve of the round
EnterPlayfield ==
    /\ pc = "playfield"
    /\ \E read \in Reads(PlayfieldTexts(current_game.length)) :
        LET g == [current_game EXCEPT
                    !.playfield = assign_if_some(@, get_playfield(read))]
        IN  /\ current_game' = g
            /\ possible_words' = solve(g, possible_words)
    /\ pc' = "wrong"
    /\ shown' = NothingShown
    /\ wrong_read' = NotRead
    /\ UNCHANGED <<mainpc, command, fnvars>>

\* The wrong-letter prompt, the second solve and the filter chain
EnterWrongLetters ==
    /\ pc = "wrong"
    /\ \E read \in Reads(WrongLetterTexts) :
        LET g == [current_game EXCEPT
                    !.wrong_letters = assign_if_some(@, get_chars_not_in_word(read))]
            solved == solve(g, possible_words)
            without_duplicate == words_without_duplicate_letters(solved)
            without_uncommon == words_without_uncommon_letters(without_duplicate, g)
            with_common == words_with_common_letters(without_uncommon, g)
        IN  /\ wrong_read' = read
            /\ current_game' = g
            /\ possible_words' = solved
            /\ shown' = [all |-> solved, without_duplicate |-> without_duplicate,
                         without_uncommon |-> without_uncommon, with_common |-> with_common]
    /\ pc' = "prompt"
    /\ UNCHANGED <<mainpc, command, fnvars>>

\* The end-of-round prompt and the loop test; when the loop ends play_game
\* returns command and its locals are gone
EndOfRound ==
    /\ pc = "prompt"
    /\ \E read \in Reads(CommandTexts) :
        LET after == get_user_input(command, read)
        IN  /\ command' = after.command
            /\ IF LoopRuns(possible_words, after.command)
               THEN /\ pc' = "playfield"
                    /\ UNCHANGED <<current_game, possible_words>>
               ELSE /\ pc' = "returned"
                    /\ current_game' = NoGame
                    /\ possible_words' = <<>>
    /\ shown' = NothingShown
    /\ wrong_read' = NotRead
    /\ UNCHANGED <<mainpc, fnvars>>

\* main, first call returned Exit: std::process::exit(0)
MainExits ==
    /\ pc = "returned"
    /\ mainpc = "first"
    /\ command = "Exit"
    /\ mainpc' = "exited"
    /\ pc' = "idle"
    /\ UNCHANGED <<current_game, possible_words, command, shown, wrong_read, fnvars>>

\* main, first call returned Nothing or NewGame: the match arm calls play_game
MainPlaysAgain ==
    /\ pc = "returned"
    /\ mainpc = "first"
    /\ command # "Exit"
    /\ mainpc' = "second"
    /\ pc' = "new_game"
    /\ command' = "Nothing"
    /\ UNCHANGED <<current_game, possible_words, shown, wrong_read, fnvars>>

\* main, the call in the match arm returned: its value is dropped and the
\* loop goes round
MainLoops ==
    /\ pc = "returned"
    /\ mainpc = "second"
    /\ mainpc' = "first"
    /\ pc' = "new_game"
    /\ command' = "Nothing"
    /\ UNCHANGED <<current_game, possible_words, shown, wrong_read, fnvars>>

Next ==
    \/ NewGameQuit
    \/ NewGamePanics
    \/ ReadFileFails
    \/ StartSession
    \/ EnterPlayfield
    \/ EnterWrongLetters
    \/ EndOfRound
    \/ MainExits
    \/ MainPlaysAgain
    \/ MainLoops

Spec == InitSession /\ [][Next]_vars

\* ------------------------------------------------------------------ claims
Range(s) == {s[i] : i \in 1..Len(s)}

\* out is in, with some elements left out: an increasing choice of places
IsSubsequence(out, in) ==
    \E f \in [1..Len(out) -> 1..Len(in)] :
        /\ \A i, j \in 1..Len(out) : i < j => f[i] < f[j]
        /\ \A i \in 1..Len(out) : out[i] = in[f[i]]

Solved == op \in {"solve", "solve_again"}

\* C1: solve returns an order-preserving subsequence of its input: every
\* returned word is an input word, none is added or duplicated, and the
\* survivors keep the input order.
C1_SolveSubsequence == Solved => IsSubsequence(returned, words)

C1_Witness ==
    /\ op = "solve"
    /\ Len(words) = MaxWords
    /\ Len(returned) < Len(words)
    /\ Len(returned) >= 1

\* The word agrees with every slot mark of the playfield
MarksAgree(word, playfield) ==
    \A i \in 1..Len(playfield) :
        /\ is_uppercase(playfield[i]) => word[i] = to_lowercase(playfield[i])
        /\ is_lowercase(playfield[i]) =>
               (\E j \in 1..Len(word) : word[j] = playfield[i]) /\ word[i] # playfield[i]

\* C2: every word solve returns agrees with every slot mark: at a slot
\* Locked(c) it has c, and a Misplaced(c) letter it contains, but not at that
\* slot; whatever wrong_letters holds.
C2_MarksSound ==
    Solved => \A k \in 1..Len(returned) : MarksAgree(returned[k], game.playfield)

C2_Witness ==
    /\ op = "solve"
    /\ returned # <<>>
    /\ \E i \in 1..Len(game.playfield) : is_uppercase(game.playfield[i])
    /\ \E i \in 1..Len(game.playfield) :
        /\ is_lowercase(game.playfield[i])
        /\ game.playfield[i] \in Range(game.wrong_letters)

\* Letters the playfield names, Locked ones in lower case
LockedLetters(playfield) == {to_lowercase(c) : c \in {m \in Range(playfield) : is_uppercase(m)}}
MisplacedLetters(playfield) == {m \in Range(playfield) : is_lowercase(m)}

\* C3 as claimed: a word that agrees with every mark, and whose letters in
\* wrong_letters all occur in the playfield as a Locked or Misplaced letter,
\* is kept; a word with a letter of wrong_letters that is nowhere in the
\* playfield is rejected.
C3_AsClaimed ==
    op = "solve" =>
        \A k \in 1..Len(words) :
            LET word == words[k]
                wrong == Range(word) \cap Range(game.wrong_letters)
                named == LockedLetters(game.playfield) \cup MisplacedLetters(game.playfield)
            IN  /\ (MarksAgree(word, game.playfield) /\ wrong \subseteq named)
                       => word \in Range(returned)
                /\ wrong \ named # {} => word \notin Range(returned)

\* C3 amended: a letter of wrong_letters is spared at a slot Locked to that
\* very letter, and anywhere when the playfield holds it as a Misplaced
\* letter. A word that agrees with every mark and all of whose letters in
\* wrong_letters are spared in this way is kept; a word with a letter of
\* wrong_letters that is nowhere in the playfield is rejected.
C3_WrongLetters ==
    op = "solve" =>
        \A k \in 1..Len(words) :
            LET word == words[k]
                wrong == Range(word) \cap Range(game.wrong_letters)
                named == LockedLetters(game.playfield) \cup MisplacedLetters(game.playfield)
                spared(i) == \/ game.playfield[i] = to_uppercase(word[i])
                             \/ word[i] \in MisplacedLetters(game.playfield)
            IN  /\ ( /\ MarksAgree(word, game.playfield)
                     /\ \A i \in 1..Len(word) :
                            word[i] \in Range(game.wrong_letters) => spared(i) )
                       => word \in Range(returned)
                /\ wrong \ named # {} => word \notin Range(returned)

\* a returned word holds a letter of wrong_letters that is Misplaced elsewhere
C3_Witness ==
    /\ op = "solve"
    /\ \E k \in 1..Len(returned) : \E i \in 1..Len(returned[k]) :
        /\ returned[k][i] \in Range(game.wrong_letters)
        /\ returned[k][i] \in MisplacedLetters(game.playfield)
        /\ game.playfield[i] # to_uppercase(returned[k][i])

\* C8: solve applied to its own output, with the same playfield and
\* wrong_letters, returns that output unchanged.
C8_Idempotent == op = "solve_again" => returned = words

C8_Witness ==
    /\ op = "solve_again"
    /\ Len(returned) = MaxWords
    /\ game.wrong_letters # <<>>
    /\ \E i \in 1..Len(game.playfield) : game.playfield[i] # "-"

\* The letters of a list that the word holds, counted once each
Score(word, letters) == Cardinality(Range(word) \cap letters)

\* The words of the list with the highest score, in the order of the list
BestScored(list, letters) ==
    LET best == CHOOSE m \in {Score(list[k], letters) : k \in 1..Len(list)} :
                    \A k \in 1..Len(list) : Score(list[k], letters) <= m
    IN  SelectSeq(list, LAMBDA w : Score(w, letters) = best)

\* Letters of a list that the playfield holds neither Locked nor Misplaced
AbsentFromPlayfield(list, playfield) ==
    {c \in Range(list) : c \notin Range(playfield) /\ to_uppercase(c) \notin Range(playfield)}

\* Letters of a list that the playfield does not hold Locked
NotLocked(list, playfield) == {c \in Range(list) : to_uppercase(c) \notin Range(playfield)}

\* C4 as claimed: the common letters present anywhere in the playfield,
\* Locked or Misplaced, are not counted; when some candidate scores above
\* zero on the rest, exactly the candidates with the highest score are
\* returned, in input order.
C4_AsClaimed ==
    op = "common" =>
        LET counted == AbsentFromPlayfield(common_letters(game.language), game.playfield)
        IN  (\E k \in 1..Len(words) : Score(words[k], counted) > 0)
                => returned = BestScored(words, counted)

\* C4 amended: only the common letters Locked (in upper case) in the
\* playfield are not counted, a Misplaced one still is; when some candidate
\* scores above zero, exactly the candidates with the highest score are
\* returned, in input order.
C4_CommonScoring ==
    op = "common" =>
        LET counted == NotLocked(common_letters(game.language), game.playfield)
        IN  (\E k \in 1..Len(words) : Score(words[k], counted) > 0)
                => returned = BestScored(words, counted)

\* a Misplaced common letter was counted and the scores differed
C4_Witness ==
    /\ op = "common"
    /\ \E c \in Range(common_letters(game.language)) :
        /\ c \in Range(game.playfield)
        /\ \E k \in 1..Len(returned) : c \in Range(returned[k])
    /\ Len(returned) >= 1
    /\ Len(returned) < Len(words)

\* C5: words_with_common_letters never turns a non-empty list into an empty
\* one, and when no candidate holds a letter it still counts it returns the
\* list as it was.
C5_CommonFallback ==
    op = "common" =>
        LET counted == NotLocked(common_letters(game.language), game.playfield)
        IN  /\ words # <<>> => returned # <<>>
            /\ (\A k \in 1..Len(words) : Score(words[k], counted) = 0) => returned = words

C5_Witness ==
    /\ op = "common"
    /\ Len(words) = MaxWords
    /\ \A k \in 1..Len(words) :
        Score(words[k], NotLocked(common_letters(game.language), game.playfield)) = 0
    /\ returned = words

\* C6 as claimed: the uncommon letters present anywhere in the playfield,
\* Locked or Misplaced, are let through; exactly the candidates holding none
\* of the others are returned, in input order.
C6_AsClaimed ==
    op = "uncommon" =>
        LET barred == AbsentFromPlayfield(uncommon_letters(game.language), game.playfield)
        IN  returned = SelectSeq(words, LAMBDA w : Range(w) \cap barred = {})

NoRepeatedLetter(word) == \A i, j \in 1..Len(word) : word[i] = word[j] => i = j

\* C7: words_without_duplicate_letters returns exactly the words whose
\* letters are pairwise distinct, in input order; what an earlier word held
\* does not count against a later one.
C7_Duplicates ==
    op = "duplicate" => returned = SelectSeq(words, NoRepeatedLetter)

\* a word with a repeated letter, then a kept word sharing that letter
C7_Witness ==
    /\ op = "duplicate"
    /\ Len(words) >= 2
    /\ ~NoRepeatedLetter(words[1])
    /\ Range(words[1]) \cap Range(words[2]) # {}
    /\ returned = <<words[2]>>

\* The wrong-letter text as get_chars_not_in_word hands it on
LettersTyped(read) == str_to_lowercase(trim(read.text))

\* C9 as claimed: once the wrong-letter text of a round is taken,
\* wrong_letters is exactly the letters of that text, also when it is empty.
C9_AsClaimed ==
    (pc = "prompt" /\ wrong_read.state = "ok")
        => current_game.wrong_letters = LettersTyped(wrong_read)

\* C9 amended: a wrong-letter text that is not empty once trimmed replaces
\* wrong_letters by exactly its letters, in lower case, and nothing of the
\* earlier rounds is kept; an empty text, or a failed read, leaves
\* wrong_letters as the round before left it.
C9_WrongLettersOverwrite ==
    [][pc = "wrong" =>
         current_game'.wrong_letters =
            IF wrong_read'.state = "ok" /\ LettersTyped(wrong_read') # <<>>
            THEN LettersTyped(wrong_read')
            ELSE current_game.wrong_letters]_vars

\* nothing typed in a later round: the letters of the round before stay
C9_Witness ==
    /\ pc = "prompt"
    /\ wrong_read.state = "ok"
    /\ LettersTyped(wrong_read) = <<>>
    /\ current_game.wrong_letters # <<>>

\* C10 as claimed: whenever play_game returns Exit, main ends the process
\* and starts no other session.
C10_AsClaimed ==
    [][(pc = "returned" /\ command = "Exit") => mainpc' = "exited"]_vars

====
